---- MODULE Spec2Model ----
(***************************************************************************)
(* Model of vesc_driver/src/vesc_can_driver.cpp: the VescCanDriver node    *)
(* (mode state machine, telemetry latch, six command callbacks) and its    *)
(* nested CommandLimit (bound resolution at construction, clip).           *)
(*                                                                         *)
(* A C++ double is represented by an integer number of thousandths         *)
(* (1.0 is 1000, 0.05 is 50, pi/2 is 1571).  Only finite values are        *)
(* modelled: NaN and the infinities are outside the value sets below.      *)
(***************************************************************************)
EXTENDS Integers, Sequences, FiniteSets, TLC

\* ------------------------------------------------------------------ bounds
\* largest number of command messages delivered in one behaviour
MaxCalls == 2
\* largest number of telemetry samples delivered in one behaviour
MaxTelemetry == 2

\* ----------------------------------------------------------- value domains
\* values handed to clip (thousandths): -2.0, -1.0, 0.05, 0.3, 1.0, 1.5, pi/2
CommandValues == {-2000, -1000, 50, 300, 1000, 1500, 1571}
\* data of the messages delivered on the command topics: -2.0, 0.05, 1.5, pi/2
TopicValues == {-2000, 50, 1500, 1571}
\* values a user may configure for <channel>_min / <channel>_max
OverrideValues == {-2000, -500, 200, 800, 1500}
\* feasible bounds tried on a stand-alone CommandLimit
FeasibleValues == {-1000, 0, 1000}

Channels == {"duty_cycle", "current", "brake", "speed", "position", "servo"}

\* ------------------------------------------------- std::optional<double>
nullopt == [set |-> FALSE, val |-> 0]
Some(v) == [set |-> TRUE, val |-> v]

\* --------------------------------------------------- rclcpp parameters
PARAMETER_NOT_SET == "PARAMETER_NOT_SET"
PARAMETER_DOUBLE == "PARAMETER_DOUBLE"
\* rclcpp::ParameterValue() and rclcpp::ParameterValue(double)
ParameterNotSet == [type |-> PARAMETER_NOT_SET, val |-> 0]
ParameterValue(v) == [type |-> PARAMETER_DOUBLE, val |-> v]

\* Node::declare_parameter(name, default_value): the value of the parameter
\* after declaration is the user's override when one was supplied for that
\* name, and the default value handed over by the caller otherwise.
declare_parameter(override, default_value) ==
    IF override.type # PARAMETER_NOT_SET THEN override ELSE default_value

\* -------------------------------------------------------- driver_mode_t
MODE_INITIALIZING == 0
MODE_OPERATING == 1

\* M_PI in thousandths
M_PI == 3142

\* ------------------------------------------------------------ CommandLimit
\* mutant: a <name>_min above the feasible maximum snaps to the feasible minimum
ResolveLower_AboveSnapsToMin(min_lower, max_upper, override_min) ==
    LET param_min == declare_parameter(override_min, ParameterValue(0))
    IN  IF param_min.type # PARAMETER_NOT_SET
        THEN IF min_lower.set /\ param_min.val < min_lower.val
             THEN Some(min_lower.val)
             ELSE IF max_upper.set /\ param_min.val > max_upper.val
                  THEN Some(min_lower.val)
                  ELSE Some(param_min.val)
        ELSE IF min_lower.set THEN Some(min_lower.val) ELSE nullopt

\* first half of the constructor: the lower bound from <name>_min
ResolveLower(min_lower, max_upper, override_min) ==
    LET param_min == declare_parameter(override_min, ParameterValue(0))
    IN  IF param_min.type # PARAMETER_NOT_SET
        THEN IF min_lower.set /\ param_min.val < min_lower.val
             THEN Some(min_lower.val)
             ELSE IF max_upper.set /\ param_min.val > max_upper.val
                  THEN Some(max_upper.val)
                  ELSE Some(param_min.val)
        ELSE IF min_lower.set THEN Some(min_lower.val) ELSE nullopt

\* mutant: <name>_max is not checked against the feasible maximum
ResolveUpper_NoFeasibleMax(min_lower, max_upper, override_max) ==
    LET param_max == declare_parameter(override_max, ParameterValue(0))
    IN  IF param_max.type # PARAMETER_NOT_SET
        THEN IF min_lower.set /\ param_max.val < min_lower.val
             THEN Some(min_lower.val)
             ELSE Some(param_max.val)
        ELSE IF max_upper.set THEN Some(max_upper.val) ELSE nullopt

\* second half of the constructor: the upper bound from <name>_max
ResolveUpper(min_lower, max_upper, override_max) ==
    LET param_max == declare_parameter(override_max, ParameterValue(0))
    IN  IF param_max.type # PARAMETER_NOT_SET
        THEN IF min_lower.set /\ param_max.val < min_lower.val
             THEN Some(min_lower.val)
             ELSE IF max_upper.set /\ param_max.val > max_upper.val
                  THEN Some(max_upper.val)
                  ELSE Some(param_max.val)
        ELSE IF max_upper.set THEN Some(max_upper.val) ELSE nullopt

\* mutant: the min > max check forgotten
SwapBounds_NoSwap(lower, upper) ==
    [lower |-> lower, upper |-> upper]

\* mutant: the min > max check written with the comparison reversed
SwapBounds_Reversed(lower, upper) ==
    IF upper.set /\ lower.set /\ lower.val < upper.val
    THEN [lower |-> upper, upper |-> lower]
    ELSE [lower |-> lower, upper |-> upper]

\* "check for min > max": swap the two bounds when both are set and inverted
SwapBounds(lower, upper) ==
    IF upper.set /\ lower.set /\ lower.val > upper.val
    THEN [lower |-> upper, upper |-> lower]
    ELSE [lower |-> lower, upper |-> upper]

\* CommandLimit::CommandLimit(node_ptr, str, min_lower, max_upper)
CommandLimit(min_lower, max_upper, override_min, override_max) ==
    SwapBounds(ResolveLower(min_lower, max_upper, override_min),
               ResolveUpper(min_lower, max_upper, override_max))

\* mutant: a value above the maximum is passed through
clip_NoUpper(limit, value) ==
    IF limit.lower.set /\ value < limit.lower.val THEN limit.lower.val
    ELSE value

\* CommandLimit::clip(value)
clip(limit, value) ==
    IF limit.lower.set /\ value < limit.lower.val THEN limit.lower.val
    ELSE IF limit.upper.set /\ value > limit.upper.val THEN limit.upper.val
    ELSE value

\* x * 180.0 / M_PI on thousandths, rounded to the nearest thousandth
RadToDeg(x) ==
    LET n == x * 180 * 1000
        a == IF n < 0 THEN -n ELSE n
        q == (2 * a + M_PI) \div (2 * M_PI)
    IN  IF n < 0 THEN -q ELSE q

\* feasible bounds handed to the six CommandLimit members by the driver
FeasibleMin(c) ==
    IF c = "duty_cycle" THEN Some(-1000)
    ELSE IF c = "servo" THEN Some(0)
    ELSE nullopt

FeasibleMax(c) ==
    IF c = "duty_cycle" THEN Some(1000)
    ELSE IF c = "servo" THEN Some(1000)
    ELSE nullopt

\* ------------------------------------------------------------------- state
VARIABLES
    parameter_overrides,  \* <channel>_min / <channel>_max supplied by the user
    limits,               \* duty_cycle_limit_ .. servo_limit_
    driver_mode_,
    state_msg_received_,
    rclcpp_ok,            \* FALSE once rclcpp::shutdown() was called
    timer_,               \* TRUE when the 50Hz wall timer was created
    cmd_count,            \* command messages delivered so far
    last_cmd,             \* channel and data of the last command message
    vesc_count,           \* calls of vesc_.Set*() so far
    vesc_last,            \* last call of vesc_.Set*(): setter and argument
    servo_sensor_count,   \* messages published on sensors/servo_position_command
    servo_sensor_last,    \* data of the last such message
    state_pub_count,      \* messages published on sensors/core
    connect_calls,        \* calls of vesc_.Connect() made by the constructor
    connected,            \* TRUE when vesc_.Connect() returned without throwing
    unknown_mode_reached, \* the else branch of the tick ("unknown driver mode") was entered
    last_event,           \* the callback that ran last: "none", "tick", "telemetry", "command"
    lim_args,             \* stand-alone CommandLimit: constructor arguments
    lim_built,            \* stand-alone CommandLimit: constructor has run
    lim,                  \* stand-alone CommandLimit: lower, upper
    lim_value,            \* stand-alone CommandLimit: last argument of clip
    lim_result            \* stand-alone CommandLimit: last result of clip

driver_vars == <<parameter_overrides, limits, driver_mode_, state_msg_received_,
                 rclcpp_ok, timer_, cmd_count, last_cmd, vesc_count, vesc_last,
                 servo_sensor_count, servo_sensor_last, state_pub_count,
                 connect_calls, connected, unknown_mode_reached, last_event>>
lim_vars == <<lim_args, lim_built, lim, lim_value, lim_result>>
vars == <<driver_vars, lim_vars>>

duty_cycle_limit_ == limits["duty_cycle"]
current_limit_ == limits["current"]
brake_limit_ == limits["brake"]
speed_limit_ == limits["speed"]
position_limit_ == limits["position"]
servo_limit_ == limits["servo"]

NoOverride == [min |-> ParameterNotSet, max |-> ParameterNotSet]
OverrideChoices == {ParameterNotSet} \cup {ParameterValue(v) : v \in OverrideValues}

\* value of state_msg_received_ when the constructor returns
StateMsgReceivedInitial == FALSE

\* stand-alone CommandLimit left unused by the driver specification
LimIdle ==
    /\ lim_args = [min_lower |-> nullopt, max_upper |-> nullopt,
                   override_min |-> ParameterNotSet, override_max |-> ParameterNotSet]
    /\ lim_built = FALSE
    /\ lim = [lower |-> nullopt, upper |-> nullopt]
    /\ lim_value = nullopt
    /\ lim_result = nullopt

\* mutant: the catch block does not return, the timer is created even when
\* vesc_.Connect() threw
DriverInit_NoReturn(connect_ok) ==
    /\ \E c \in Channels : \E pmin \in OverrideChoices : \E pmax \in OverrideChoices :
          parameter_overrides =
              [ch \in Channels |->
                  IF ch = c THEN [min |-> pmin, max |-> pmax] ELSE NoOverride]
    /\ limits = [ch \in Channels |->
                    CommandLimit(FeasibleMin(ch), FeasibleMax(ch),
                                 parameter_overrides[ch].min,
                                 parameter_overrides[ch].max)]
    /\ driver_mode_ = MODE_INITIALIZING
    /\ state_msg_received_ = StateMsgReceivedInitial
    /\ connect_calls = 1
    /\ connected = connect_ok
    /\ rclcpp_ok = connect_ok
    /\ timer_ = TRUE
    /\ unknown_mode_reached = FALSE
    /\ last_event = "none"
    /\ cmd_count = 0
    /\ last_cmd = [channel |-> "none", data |-> 0]
    /\ vesc_count = 0
    /\ vesc_last = [setter |-> "none", value |-> 0]
    /\ servo_sensor_count = 0
    /\ servo_sensor_last = 0
    /\ state_pub_count = 0

\* VescCanDriver::VescCanDriver(): the state when the constructor returns.
\* The user's overrides are given for at most one channel at a time (each
\* CommandLimit reads only its own two parameters); vesc_.Connect() either
\* returns or throws.
DriverInit(connect_ok) ==
    /\ \E c \in Channels : \E pmin \in OverrideChoices : \E pmax \in OverrideChoices :
          parameter_overrides =
              [ch \in Channels |->
                  IF ch = c THEN [min |-> pmin, max |-> pmax] ELSE NoOverride]
    /\ limits = [ch \in Channels |->
                    CommandLimit(FeasibleMin(ch), FeasibleMax(ch),
                                 parameter_overrides[ch].min,
                                 parameter_overrides[ch].max)]
    /\ driver_mode_ = MODE_INITIALIZING
    /\ state_msg_received_ = StateMsgReceivedInitial
    /\ connect_calls = 1
    /\ connected = connect_ok
    /\ rclcpp_ok = connect_ok
    /\ timer_ = connect_ok
    /\ unknown_mode_reached = FALSE
    /\ last_event = "none"
    /\ cmd_count = 0
    /\ last_cmd = [channel |-> "none", data |-> 0]
    /\ vesc_count = 0
    /\ vesc_last = [setter |-> "none", value |-> 0]
    /\ servo_sensor_count = 0
    /\ servo_sensor_last = 0
    /\ state_pub_count = 0

Init ==
    /\ \E connect_ok \in BOOLEAN : DriverInit(connect_ok)
    /\ LimIdle

\* ----------------------------------------------------------------- actions
\* the frame of the tick: everything but the mode and the unknown-mode branch
TickFrame ==
    /\ last_event' = "tick"
    /\ UNCHANGED <<parameter_overrides, limits, state_msg_received_, rclcpp_ok,
                   timer_, cmd_count, last_cmd, vesc_count, vesc_last,
                   servo_sensor_count, servo_sensor_last, state_pub_count,
                   connect_calls, connected>>
    /\ UNCHANGED lim_vars

\* mutant: the tick falls back to INITIALIZING once it finds the mode OPERATING
timerCallback_Revert ==
    /\ timer_ /\ rclcpp_ok
    /\ IF driver_mode_ = MODE_INITIALIZING
       THEN IF state_msg_received_
            THEN driver_mode_' = MODE_OPERATING
            ELSE UNCHANGED driver_mode_
       ELSE driver_mode_' = MODE_INITIALIZING
    /\ UNCHANGED unknown_mode_reached
    /\ TickFrame

\* mutant: the tick never leaves INITIALIZING
timerCallback_NoTransition ==
    /\ timer_ /\ rclcpp_ok
    /\ UNCHANGED driver_vars
    /\ UNCHANGED lim_vars

\* mutant: the tick leaves INITIALIZING without looking at the latch
timerCallback_IgnoreLatch ==
    /\ timer_ /\ rclcpp_ok
    /\ driver_mode_' = MODE_OPERATING
    /\ UNCHANGED unknown_mode_reached
    /\ TickFrame

\* mutant: the tick stores a value that is neither mode when it leaves
\* INITIALIZING
timerCallback_BadMode ==
    /\ timer_ /\ rclcpp_ok
    /\ IF driver_mode_ = MODE_INITIALIZING
       THEN /\ IF state_msg_received_
               THEN driver_mode_' = MODE_OPERATING + 1
               ELSE UNCHANGED driver_mode_
            /\ UNCHANGED unknown_mode_reached
       ELSE IF driver_mode_ = MODE_OPERATING
            THEN UNCHANGED <<driver_mode_, unknown_mode_reached>>
            ELSE /\ unknown_mode_reached' = TRUE
                 /\ UNCHANGED driver_mode_
    /\ TickFrame

\* VescCanDriver::timerCallback()
timerCallback ==
    /\ timer_ /\ rclcpp_ok
    /\ IF driver_mode_ = MODE_INITIALIZING
       THEN /\ IF state_msg_received_
               THEN driver_mode_' = MODE_OPERATING
               ELSE UNCHANGED driver_mode_
            /\ UNCHANGED unknown_mode_reached
       ELSE IF driver_mode_ = MODE_OPERATING
            THEN UNCHANGED <<driver_mode_, unknown_mode_reached>>
            ELSE /\ unknown_mode_reached' = TRUE
                 /\ UNCHANGED driver_mode_
    /\ TickFrame

\* mutant: the latch is toggled on every sample instead of being set
VescStateUpdatedCallback_Toggle ==
    /\ rclcpp_ok
    /\ state_pub_count < MaxTelemetry
    /\ state_msg_received_' = ~state_msg_received_
    /\ state_pub_count' = state_pub_count + 1
    /\ last_event' = "telemetry"
    /\ UNCHANGED <<parameter_overrides, limits, driver_mode_, rclcpp_ok, timer_,
                   cmd_count, last_cmd, vesc_count, vesc_last,
                   servo_sensor_count, servo_sensor_last,
                   connect_calls, connected, unknown_mode_reached>>
    /\ UNCHANGED lim_vars

\* VescCanDriver::VescStateUpdatedCallback(msg)
VescStateUpdatedCallback ==
    /\ rclcpp_ok
    /\ state_pub_count < MaxTelemetry
    /\ state_msg_received_' = TRUE
    /\ state_pub_count' = state_pub_count + 1
    /\ last_event' = "telemetry"
    /\ UNCHANGED <<parameter_overrides, limits, driver_mode_, rclcpp_ok, timer_,
                   cmd_count, last_cmd, vesc_count, vesc_last,
                   servo_sensor_count, servo_sensor_last,
                   connect_calls, connected, unknown_mode_reached>>
    /\ UNCHANGED lim_vars

\* the frame of a command callback: everything but the mode, the command
\* record and what the callback hands to vesc_ and servo_sensor_pub_
CommandFrame ==
    /\ UNCHANGED <<parameter_overrides, limits, state_msg_received_, rclcpp_ok,
                   timer_, state_pub_count,
                   connect_calls, connected, unknown_mode_reached>>
    /\ UNCHANGED lim_vars

\* delivery of one message on a command topic
Delivered(channel, data) ==
    /\ rclcpp_ok
    /\ cmd_count < MaxCalls
    /\ cmd_count' = cmd_count + 1
    /\ last_cmd' = [channel |-> channel, data |-> data]
    /\ last_event' = "command"

\* one call vesc_.Set<setter>(value)
VescSet(setter, value) ==
    /\ vesc_count' = vesc_count + 1
    /\ vesc_last' = [setter |-> setter, value |-> value]

\* VescCanDriver::dutyCycleCallback(duty_cycle).  The condition of the if is
\* the assignment driver_mode_ = MODE_OPERATING: it stores MODE_OPERATING and
\* is true when the stored value is not zero.
dutyCycleCallback(duty_cycle) ==
    /\ Delivered("duty_cycle", duty_cycle)
    /\ driver_mode_' = MODE_OPERATING
    /\ IF MODE_OPERATING # 0
       THEN VescSet("SetDutyCycle", clip(duty_cycle_limit_, duty_cycle))
       ELSE UNCHANGED <<vesc_count, vesc_last>>
    /\ UNCHANGED <<servo_sensor_count, servo_sensor_last>>
    /\ CommandFrame

\* mutant: the current is clipped with the limit of the brake channel
currentCallback_BrakeLimit(current) ==
    /\ Delivered("current", current)
    /\ driver_mode_' = MODE_OPERATING
    /\ IF MODE_OPERATING # 0
       THEN VescSet("SetCurrent", clip(brake_limit_, current))
       ELSE UNCHANGED <<vesc_count, vesc_last>>
    /\ UNCHANGED <<servo_sensor_count, servo_sensor_last>>
    /\ CommandFrame

\* VescCanDriver::currentCallback(current)
currentCallback(current) ==
    /\ Delivered("current", current)
    /\ driver_mode_' = MODE_OPERATING
    /\ IF MODE_OPERATING # 0
       THEN VescSet("SetCurrent", clip(current_limit_, current))
       ELSE UNCHANGED <<vesc_count, vesc_last>>
    /\ UNCHANGED <<servo_sensor_count, servo_sensor_last>>
    /\ CommandFrame

\* VescCanDriver::brakeCallback(brake)
brakeCallback(brake) ==
    /\ Delivered("brake", brake)
    /\ driver_mode_' = MODE_OPERATING
    /\ IF MODE_OPERATING # 0
       THEN VescSet("SetBrake", clip(brake_limit_, brake))
       ELSE UNCHANGED <<vesc_count, vesc_last>>
    /\ UNCHANGED <<servo_sensor_count, servo_sensor_last>>
    /\ CommandFrame

\* VescCanDriver::speedCallback(speed)
speedCallback(speed) ==
    /\ Delivered("speed", speed)
    /\ driver_mode_' = MODE_OPERATING
    /\ IF MODE_OPERATING # 0
       THEN VescSet("SetSpeed", clip(speed_limit_, speed))
       ELSE UNCHANGED <<vesc_count, vesc_last>>
    /\ UNCHANGED <<servo_sensor_count, servo_sensor_last>>
    /\ CommandFrame

\* mutant: the position is converted to degrees before it is clipped
positionCallback_ConvertFirst(position) ==
    /\ Delivered("position", position)
    /\ driver_mode_' = MODE_OPERATING
    /\ IF MODE_OPERATING # 0
       THEN LET position_deg == clip(position_limit_, RadToDeg(position))
            IN  VescSet("SetPosition", position_deg)
       ELSE UNCHANGED <<vesc_count, vesc_last>>
    /\ UNCHANGED <<servo_sensor_count, servo_sensor_last>>
    /\ CommandFrame

\* VescCanDriver::positionCallback(position)
positionCallback(position) ==
    /\ Delivered("position", position)
    /\ driver_mode_' = MODE_OPERATING
    /\ IF MODE_OPERATING # 0
       THEN LET position_deg == RadToDeg(clip(position_limit_, position))
            IN  VescSet("SetPosition", position_deg)
       ELSE UNCHANGED <<vesc_count, vesc_last>>
    /\ UNCHANGED <<servo_sensor_count, servo_sensor_last>>
    /\ CommandFrame

\* mutant: the raw servo value is published instead of the clipped one
servoCallback_PublishRaw(servo) ==
    /\ Delivered("servo", servo)
    /\ driver_mode_' = MODE_OPERATING
    /\ IF MODE_OPERATING # 0
       THEN LET servo_clipped == clip(servo_limit_, servo)
            IN  /\ VescSet("SetServo", servo_clipped)
                /\ servo_sensor_count' = servo_sensor_count + 1
                /\ servo_sensor_last' = servo
       ELSE UNCHANGED <<vesc_count, vesc_last, servo_sensor_count, servo_sensor_last>>
    /\ CommandFrame

\* VescCanDriver::servoCallback(servo)
servoCallback(servo) ==
    /\ Delivered("servo", servo)
    /\ driver_mode_' = MODE_OPERATING
    /\ IF MODE_OPERATING # 0
       THEN LET servo_clipped == clip(servo_limit_, servo)
            IN  /\ VescSet("SetServo", servo_clipped)
                /\ servo_sensor_count' = servo_sensor_count + 1
                /\ servo_sensor_last' = servo_clipped
       ELSE UNCHANGED <<vesc_count, vesc_last, servo_sensor_count, servo_sensor_last>>
    /\ CommandFrame

Next ==
    \/ timerCallback
    \/ VescStateUpdatedCallback
    \/ \E v \in TopicValues : dutyCycleCallback(v)
    \/ \E v \in TopicValues : currentCallback(v)
    \/ \E v \in TopicValues : brakeCallback(v)
    \/ \E v \in TopicValues : speedCallback(v)
    \/ \E v \in TopicValues : positionCallback(v)
    \/ \E v \in TopicValues : servoCallback(v)

Spec == Init /\ [][Next]_vars

\* the tick is periodic: the wall timer keeps firing while the node spins
FairSpec == Init /\ [][Next]_vars /\ WF_vars(timerCallback)

\* ------------------------------------------- stand-alone CommandLimit
\* the driver at rest while a CommandLimit is exercised on its own
DriverIdle ==
    /\ parameter_overrides = [ch \in Channels |-> NoOverride]
    /\ limits = [ch \in Channels |->
                    CommandLimit(FeasibleMin(ch), FeasibleMax(ch),
                                 ParameterNotSet, ParameterNotSet)]
    /\ driver_mode_ = MODE_INITIALIZING
    /\ state_msg_received_ = StateMsgReceivedInitial
    /\ connect_calls = 1
    /\ connected = TRUE
    /\ rclcpp_ok = TRUE
    /\ timer_ = TRUE
    /\ unknown_mode_reached = FALSE
    /\ last_event = "none"
    /\ cmd_count = 0
    /\ last_cmd = [channel |-> "none", data |-> 0]
    /\ vesc_count = 0
    /\ vesc_last = [setter |-> "none", value |-> 0]
    /\ servo_sensor_count = 0
    /\ servo_sensor_last = 0
    /\ state_pub_count = 0

OptFeasible == {nullopt} \cup {Some(v) : v \in FeasibleValues}

\* constructor arguments: feasible bounds each present or absent (ordered
\* when both are present), overrides each supplied or not
LimInit ==
    /\ DriverIdle
    /\ \E lo \in OptFeasible : \E hi \in OptFeasible :
       \E pmin \in OverrideChoices : \E pmax \in OverrideChoices :
          /\ (lo.set /\ hi.set) => lo.val <= hi.val
          /\ lim_args = [min_lower |-> lo, max_upper |-> hi,
                         override_min |-> pmin, override_max |-> pmax]
    /\ lim_built = FALSE
    /\ lim = [lower |-> nullopt, upper |-> nullopt]
    /\ lim_value = nullopt
    /\ lim_result = nullopt

\* CommandLimit::CommandLimit on the chosen arguments
LimConstruct ==
    /\ ~lim_built
    /\ lim_built' = TRUE
    /\ lim' = CommandLimit(lim_args.min_lower, lim_args.max_upper,
                           lim_args.override_min, lim_args.override_max)
    /\ UNCHANGED <<lim_args, lim_value, lim_result>>
    /\ UNCHANGED driver_vars

\* CommandLimit::clip(value) on the constructed limit
LimClip(value) ==
    /\ lim_built
    /\ lim_value' = Some(value)
    /\ lim_result' = Some(clip(lim, value))
    /\ UNCHANGED <<lim_args, lim_built, lim>>
    /\ UNCHANGED driver_vars

LimNext ==
    \/ LimConstruct
    \/ \E v \in CommandValues : LimClip(v)

LimSpec == LimInit /\ [][LimNext]_vars

\* ------------------------------------------------------------------ claims
SetterOf(channel) ==
    CASE channel = "duty_cycle" -> "SetDutyCycle"
      [] channel = "current" -> "SetCurrent"
      [] channel = "brake" -> "SetBrake"
      [] channel = "speed" -> "SetSpeed"
      [] channel = "position" -> "SetPosition"
      [] channel = "servo" -> "SetServo"
      [] OTHER -> "none"

\* C1: while the mode is INITIALIZING no step makes a call of vesc_.Set*():
\* a command arriving before the mode is OPERATING is a no-op.
C1_NoSetCallWhileInitializing ==
    [][driver_mode_ = MODE_INITIALIZING => vesc_count' = vesc_count]_vars

\* C2: the bounds of duty_cycle_limit_ stay inside [-1, 1] and those of
\* servo_limit_ inside [0, 1] for every parameter configuration, and every
\* value handed to SetDutyCycle lies in [-1, 1], every value handed to
\* SetServo or published on sensors/servo_position_command lies in [0, 1].
C2_DutyAndServoWithinFeasible ==
    /\ duty_cycle_limit_.lower.set /\ duty_cycle_limit_.upper.set
    /\ -1000 <= duty_cycle_limit_.lower.val /\ duty_cycle_limit_.upper.val <= 1000
    /\ servo_limit_.lower.set /\ servo_limit_.upper.set
    /\ 0 <= servo_limit_.lower.val /\ servo_limit_.upper.val <= 1000
    /\ vesc_last.setter = "SetDutyCycle" =>
          -1000 <= vesc_last.value /\ vesc_last.value <= 1000
    /\ vesc_last.setter = "SetServo" =>
          0 <= vesc_last.value /\ vesc_last.value <= 1000
    /\ servo_sensor_count > 0 =>
          0 <= servo_sensor_last /\ servo_sensor_last <= 1000

\* C2 witness: duty_cycle_max configured above the feasible maximum and a raw
\* duty cycle above 1.0 handed to SetDutyCycle as 1.0
C2_Witness ==
    /\ parameter_overrides["duty_cycle"].max.type = PARAMETER_DOUBLE
    /\ parameter_overrides["duty_cycle"].max.val > 1000
    /\ last_cmd = [channel |-> "duty_cycle", data |-> 1500]
    /\ vesc_last = [setter |-> "SetDutyCycle", value |-> 1000]

\* C3: the mode starts as INITIALIZING and no step takes it from OPERATING
\* back to another mode.
C3_ModeMonotonic ==
    /\ driver_mode_ = MODE_INITIALIZING
    /\ [][driver_mode_ = MODE_OPERATING => driver_mode_' = MODE_OPERATING]_vars

\* C3 witness: the mode is OPERATING after telemetry and two commands, so at
\* least one event ran with the mode already OPERATING
C3_Witness ==
    /\ driver_mode_ = MODE_OPERATING
    /\ state_pub_count >= 1
    /\ cmd_count >= 2

\* C4: the result of clip on a constructed CommandLimit lies in
\* [lower, upper] when both bounds are set, is at least lower when only lower
\* is set, at most upper when only upper is set, and is the argument itself
\* when neither is set.
C4_ClipWithinBounds ==
    lim_result.set =>
        LET v == lim_value.val
            r == lim_result.val
        IN  /\ (lim.lower.set /\ lim.upper.set) =>
                  (lim.lower.val <= r /\ r <= lim.upper.val)
            /\ (lim.lower.set /\ ~lim.upper.set) => r >= lim.lower.val
            /\ (~lim.lower.set /\ lim.upper.set) => r <= lim.upper.val
            /\ (~lim.lower.set /\ ~lim.upper.set) => r = v

\* C4 witness: a value above the upper bound of a two-sided limit was clipped
C4_Witness ==
    /\ lim_result.set
    /\ lim.lower.set /\ lim.upper.set
    /\ lim_value.val > lim.upper.val
    /\ lim_result.val = lim.upper.val

\* C5: clipping the result of clip once more gives the same result.
C5_ClipIdempotent ==
    /\ lim_result.set => clip(lim, lim_result.val) = lim_result.val
    /\ lim_built => \A v \in CommandValues : clip(lim, clip(lim, v)) = clip(lim, v)

\* C5 witness: a value below the lower bound was clipped to the lower bound
C5_Witness ==
    /\ lim_result.set
    /\ lim.lower.set
    /\ lim_value.val < lim.lower.val
    /\ lim_result.val = lim.lower.val

\* C6: after construction lower <= upper whenever both are set, for every
\* combination of feasible bounds and overrides, and no later step changes
\* the bounds.
C6_SwapInvariant ==
    /\ []((lim_built /\ lim.lower.set /\ lim.upper.set) => lim.lower.val <= lim.upper.val)
    /\ [][lim_built => lim' = lim]_vars

\* C6 witness: <name>_min configured above <name>_max, the two came out
\* swapped and clip has run on the limit
C6_Witness ==
    /\ lim_built
    /\ lim_args.override_min.type = PARAMETER_DOUBLE
    /\ lim_args.override_max.type = PARAMETER_DOUBLE
    /\ lim_args.override_min.val > lim_args.override_max.val
    /\ lim.lower = Some(lim_args.override_max.val)
    /\ lim.upper = Some(lim_args.override_min.val)
    /\ lim_result.set

\* C7: a side without a configured override resolves to the feasible bound
\* of the channel, or stays unset when the channel has none; duty_cycle
\* without overrides clips 1.5 to 1.0, -2.0 to -1.0 and leaves 0.3.
C7_NoOverrideGivesFeasibleBound ==
    /\ \A c \in Channels :
          /\ parameter_overrides[c].min.type = PARAMETER_NOT_SET =>
                limits[c].lower = FeasibleMin(c)
          /\ parameter_overrides[c].max.type = PARAMETER_NOT_SET =>
                limits[c].upper = FeasibleMax(c)
    /\ parameter_overrides["duty_cycle"] = NoOverride =>
          /\ clip(duty_cycle_limit_, 1500) = 1000
          /\ clip(duty_cycle_limit_, -2000) = -1000
          /\ clip(duty_cycle_limit_, 300) = 300

\* C8: on current, brake, speed and position without a configured override
\* the raw value reaches the setter unchanged (position: converted to
\* degrees, pi/2 as 90.0).
C8_UnboundedChannelsForwardRaw ==
    (/\ last_cmd.channel \in {"current", "brake", "speed", "position"}
     /\ parameter_overrides[last_cmd.channel] = NoOverride
     /\ driver_mode_ = MODE_OPERATING)
    =>
    /\ vesc_last.setter = SetterOf(last_cmd.channel)
    /\ last_cmd.channel # "position" => vesc_last.value = last_cmd.data
    /\ last_cmd.channel = "position" => vesc_last.value = RadToDeg(last_cmd.data)
    /\ (last_cmd.channel = "position" /\ last_cmd.data = 1571) => vesc_last.value = 90000

\* C9: with only a lower override L inside the feasible range [flo, fhi] the
\* bounds are [L, fhi] and every v < L is clipped to L; servo with
\* servo_min = 0.2 clips 0.05 to 0.2.
C9_LowerOverrideOnly ==
    /\ \A c \in {"duty_cycle", "servo"} :
          LET L == parameter_overrides[c].min IN
          (/\ L.type = PARAMETER_DOUBLE
           /\ parameter_overrides[c].max.type = PARAMETER_NOT_SET
           /\ FeasibleMin(c).val <= L.val /\ L.val <= FeasibleMax(c).val)
          =>
          /\ limits[c] = [lower |-> Some(L.val), upper |-> FeasibleMax(c)]
          /\ \A v \in CommandValues : v < L.val => clip(limits[c], v) = L.val
    /\ parameter_overrides["servo"] =
          [min |-> ParameterValue(200), max |-> ParameterNotSet] =>
          clip(servo_limit_, 50) = 200

\* C10: once a telemetry sample has arrived the periodic tick leads to the
\* mode OPERATING; a step other than a command or a telemetry arrival taken
\* with the latch set leaves the mode OPERATING; and in OPERATING every
\* command makes one call of the setter of its channel.
C10_TelemetryLeadsToOperating ==
    /\ state_msg_received_ ~> (driver_mode_ = MODE_OPERATING)
    /\ [][(/\ state_msg_received_
           /\ cmd_count' = cmd_count
           /\ state_pub_count' = state_pub_count) =>
          driver_mode_' = MODE_OPERATING]_vars
    /\ [][(driver_mode_ = MODE_OPERATING /\ cmd_count' # cmd_count) =>
          /\ vesc_count' = vesc_count + 1
          /\ vesc_last'.setter = SetterOf(last_cmd'.channel)]_vars

\* C10 witness: the mode is OPERATING with the latch set and no command
\* delivered yet, so the tick made the transition
C10_Witness ==
    /\ state_msg_received_
    /\ driver_mode_ = MODE_OPERATING
    /\ cmd_count = 0

\* C11: the mode is OPERATING only when the telemetry latch is set, and the
\* tick is the only callback whose step changes the mode.
C11_OperatingOnlyWithLatch ==
    /\ [](driver_mode_ = MODE_OPERATING => state_msg_received_)
    /\ [][driver_mode_' # driver_mode_ => last_event' = "tick"]_vars

\* C12: a tick in INITIALIZING without the latch leaves the mode
\* INITIALIZING, a tick in INITIALIZING with the latch makes it OPERATING, a
\* tick in OPERATING leaves it OPERATING; no tick touches the latch or calls
\* a setter of vesc_.
C12_TickTransitions ==
    [][last_event' = "tick" =>
          /\ (driver_mode_ = MODE_INITIALIZING /\ ~state_msg_received_) =>
                driver_mode_' = MODE_INITIALIZING
          /\ (driver_mode_ = MODE_INITIALIZING /\ state_msg_received_) =>
                driver_mode_' = MODE_OPERATING
          /\ driver_mode_ = MODE_OPERATING => driver_mode_' = MODE_OPERATING
          /\ state_msg_received_' = state_msg_received_
          /\ vesc_count' = vesc_count
          /\ vesc_last' = vesc_last]_vars

\* C12 witness: a tick has just run with the latch unset and the mode is
\* still INITIALIZING
C12_Witness ==
    /\ last_event = "tick"
    /\ driver_mode_ = MODE_INITIALIZING
    /\ ~state_msg_received_

\* reference: x clamped into [flo, fhi], min(max(x, flo), fhi)
ClampRef(x, flo, fhi) ==
    LET m == IF x > flo THEN x ELSE flo
    IN  IF m < fhi THEN m ELSE fhi

\* C13: with both feasible bounds flo <= fhi present, a configured override
\* x resolves, before the swap, to flo when x < flo, to fhi when x > fhi and
\* to x otherwise, for the lower and for the upper bound alike, which is
\* min(max(x, flo), fhi); the constructor runs on every configuration.
C13_OverrideClampedToFeasible ==
    LET flo == lim_args.min_lower
        fhi == lim_args.max_upper
        lo == ResolveLower(flo, fhi, lim_args.override_min)
        hi == ResolveUpper(flo, fhi, lim_args.override_max)
    IN  /\ ~lim_built => ENABLED LimConstruct
        /\ (lim_built /\ flo.set /\ fhi.set) =>
              /\ lim = SwapBounds(lo, hi)
              /\ lim_args.override_min.type = PARAMETER_DOUBLE =>
                    /\ lo = Some(ClampRef(lim_args.override_min.val, flo.val, fhi.val))
                    /\ lim_args.override_min.val < flo.val => lo = flo
                    /\ lim_args.override_min.val > fhi.val => lo = fhi
              /\ lim_args.override_max.type = PARAMETER_DOUBLE =>
                    /\ hi = Some(ClampRef(lim_args.override_max.val, flo.val, fhi.val))
                    /\ lim_args.override_max.val < flo.val => hi = flo
                    /\ lim_args.override_max.val > fhi.val => hi = fhi

\* C13 witness: a limit was built from a <name>_min above the feasible
\* maximum and a <name>_max inside the feasible range; the lower bound
\* resolved to the feasible maximum and the swap moved it to upper
C13_Witness ==
    /\ lim_built
    /\ lim_args.min_lower.set /\ lim_args.max_upper.set
    /\ lim_args.override_min.type = PARAMETER_DOUBLE
    /\ lim_args.override_max.type = PARAMETER_DOUBLE
    /\ lim_args.override_min.val > lim_args.max_upper.val
    /\ lim_args.override_max.val > lim_args.min_lower.val
    /\ lim_args.override_max.val < lim_args.max_upper.val
    /\ lim = [lower |-> Some(lim_args.override_max.val), upper |-> lim_args.max_upper]

\* C14: the value handed to SetPosition is the clipped radian value
\* converted to degrees: the raw value is compared with the radian bounds of
\* position_limit_ first and converted afterwards.
C14_PositionClippedThenConverted ==
    [][(cmd_count' # cmd_count /\ last_cmd'.channel = "position") =>
          /\ vesc_count' = vesc_count + 1
          /\ vesc_last'.setter = "SetPosition"
          /\ vesc_last'.value = RadToDeg(clip(position_limit_, last_cmd'.data))]_vars

\* C14 witness: position_max = 1.5 rad, a command of pi/2 rad reached
\* SetPosition as 1.5 rad in degrees, which clipping the degrees against the
\* radian bounds would not give
C14_Witness ==
    /\ parameter_overrides["position"].max = ParameterValue(1500)
    /\ last_cmd = [channel |-> "position", data |-> 1571]
    /\ vesc_last = [setter |-> "SetPosition", value |-> RadToDeg(1500)]
    /\ vesc_last.value # clip(position_limit_, RadToDeg(1571))

\* C15: a step that calls SetServo publishes exactly one message on
\* sensors/servo_position_command carrying the value handed to SetServo,
\* the clipped one; nothing is published there without a SetServo call of a
\* servo command.
C15_ServoRepublish ==
    [][/\ (vesc_count' # vesc_count /\ vesc_last'.setter = "SetServo") =>
             /\ servo_sensor_count' = servo_sensor_count + 1
             /\ servo_sensor_last' = vesc_last'.value
             /\ servo_sensor_last' = clip(servo_limit_, last_cmd'.data)
       /\ (servo_sensor_count' # servo_sensor_count
             \/ servo_sensor_last' # servo_sensor_last) =>
             /\ last_cmd'.channel = "servo"
             /\ cmd_count' = cmd_count + 1
             /\ vesc_count' = vesc_count + 1
             /\ vesc_last'.setter = "SetServo"]_vars

\* C15 witness: a servo command of 1.5 was handed to SetServo clipped and
\* the one published message carries the clipped value, not the raw one
C15_Witness ==
    /\ last_cmd = [channel |-> "servo", data |-> 1500]
    /\ vesc_last.setter = "SetServo"
    /\ servo_sensor_count = 1
    /\ servo_sensor_last = vesc_last.value
    /\ servo_sensor_last # last_cmd.data

\* the value a channel hands to its setter for a clipped value: degrees on
\* the position channel, the clipped value itself elsewhere
SetterArgument(channel, clipped) ==
    IF channel = "position" THEN RadToDeg(clipped) ELSE clipped

\* C16: a command on channel c makes at most one call of vesc_.Set*(), the
\* call is the setter of c with the value clipped by the CommandLimit of c,
\* and the bounds of no CommandLimit change.
C16_ChannelIsolation ==
    [][cmd_count' # cmd_count =>
          LET c == last_cmd'.channel
              v == last_cmd'.data
          IN  /\ vesc_count' \in {vesc_count, vesc_count + 1}
              /\ vesc_count' = vesc_count + 1 =>
                    /\ vesc_last'.setter = SetterOf(c)
                    /\ vesc_last'.value = SetterArgument(c, clip(limits[c], v))
              /\ vesc_count' = vesc_count => vesc_last' = vesc_last
              /\ limits' = limits]_vars

\* C16 witness: current_min = -2.0 and current_max = 1.5 are configured (the
\* brake limit is not), and a current command of pi/2 reached SetCurrent
\* clipped to 1.5
C16_Witness ==
    /\ parameter_overrides["current"] =
          [min |-> ParameterValue(-2000), max |-> ParameterValue(1500)]
    /\ current_limit_ # brake_limit_
    /\ last_cmd = [channel |-> "current", data |-> 1571]
    /\ vesc_last = [setter |-> "SetCurrent", value |-> 1500]

\* C17: the latch, once set, stays set in every step; a telemetry arrival
\* sets it whatever the mode, leaves the mode alone and publishes exactly
\* one message on sensors/core.
C17_TelemetryLatch ==
    /\ [][state_msg_received_ => state_msg_received_']_vars
    /\ [][state_pub_count' # state_pub_count =>
             /\ state_msg_received_'
             /\ driver_mode_' = driver_mode_
             /\ state_pub_count' = state_pub_count + 1]_vars
    /\ [][(state_msg_received_' # state_msg_received_) =>
             state_pub_count' = state_pub_count + 1]_vars

\* C17 witness: the second sample has just arrived, with the mode already
\* OPERATING, and the latch is still set
C17_Witness ==
    /\ last_event = "telemetry"
    /\ state_pub_count = 2
    /\ driver_mode_ = MODE_OPERATING
    /\ state_msg_received_

\* C18: the mode is always INITIALIZING or OPERATING and the tick never
\* enters its final else branch, the "unknown driver mode" assertion.
C18_ModeKnown ==
    /\ driver_mode_ \in {MODE_INITIALIZING, MODE_OPERATING}
    /\ ~unknown_mode_reached

\* C18 witness: a tick has just run in OPERATING, after telemetry and a
\* command, without entering the else branch
C18_Witness ==
    /\ last_event = "tick"
    /\ driver_mode_ = MODE_OPERATING
    /\ state_msg_received_
    /\ cmd_count >= 1
    /\ ~unknown_mode_reached

\* C19: the constructor calls vesc_.Connect() exactly once; when the call
\* throws, shutdown is requested, the timer is not created and no tick ever
\* runs; when it returns, the timer is created.
C19_ConnectFailure ==
    /\ connect_calls = 1
    /\ ~connected => (~rclcpp_ok /\ ~timer_)
    /\ ~timer_ => last_event # "tick"
    /\ connected => (timer_ /\ rclcpp_ok)

\* C19 witness: the state the constructor leaves when vesc_.Connect() threw
C19_Witness ==
    /\ connect_calls = 1
    /\ ~connected
    /\ ~rclcpp_ok
    /\ ~timer_
    /\ driver_mode_ = MODE_INITIALIZING
====
